---- MODULE Spec2Model ----
(***************************************************************************)
(* Model of pageless/slack_server.py: the module start-up check, the       *)
(* SlackClient wrapper and the eight FastMCP tool handlers.                *)
(*                                                                         *)
(* Python values: an Optional value is a sequence, <<>> for None and <<v>> *)
(* for v.  A str is a TLA+ string.  A JSON object is a sequence of         *)
(* <<key, value>> members in insertion order; a JSON text is a sequence of *)
(* tokens.                                                                 *)
(***************************************************************************)
EXTENDS Integers, Sequences, FiniteSets, TLC

VARIABLES
    env_token,      \* os.environ["SLACK_BOT_TOKEN"], Optional[str]
    env_team,       \* os.environ["SLACK_TEAM_ID"], Optional[str]
    pc,             \* position of the process: start, exited, loaded, serving
    exit_status,    \* Optional[int]: the status given to sys.exit
    bot_token,      \* module global bot_token
    team_id,        \* module global team_id
    bot_headers,    \* slack_client.bot_headers
    call_st,        \* per call: idle, awaiting, done
    call_tool,      \* per call: name of the tool invoked
    call_args,      \* per call: the arguments as passed by the caller
    call_req,       \* per call: Optional outbound HTTP request
    call_resp,      \* per call: Optional outcome of the awaited request
    call_result,    \* per call: the text returned by the handler
    call_nreq,      \* per call: outbound requests issued by this call
    call_count,     \* tool calls dispatched so far
    request_count   \* outbound HTTP requests issued so far

vars == <<env_token, env_team, pc, exit_status, bot_token, team_id, bot_headers,
          call_st, call_tool, call_args, call_req, call_resp, call_result,
          call_nreq, call_count, request_count>>

config_vars == <<env_token, env_team, pc, exit_status, bot_token, team_id, bot_headers>>

(***************************************************************************)
(* Bounds of the model.                                                    *)
(***************************************************************************)
MaxCalls == 3
MaxNegLimit == 1
MaxOverCap == 2

(***************************************************************************)
(* Program constants.                                                      *)
(***************************************************************************)
LimitCap == 200
DefaultListLimit == 100
DefaultHistoryLimit == 10
ExitFailure == 1

(***************************************************************************)
(* Python values.                                                          *)
(***************************************************************************)
None == <<>>
Some(v) == <<v>>

\* bool(x) for x an Optional[str]: None and "" are falsy.
Truthy(x) == x # None /\ x[1] # ""

EmptyDict == [k \in {} |-> ""]

\* str(n) for an int n.
str(n) == ToString(n)

\* min(a, b)
min(a, b) == IF a <= b THEN a ELSE b

(***************************************************************************)
(* JSON.  Values are JTrue, JFalse and JStr(s); an object is a sequence of *)
(* <<key, value>> members.  A text is a sequence of tokens: punctuation,   *)
(* the literals true and false, blanks, and a string as quote, characters, *)
(* quote.                                                                  *)
(***************************************************************************)
JTrue == <<"true">>
JFalse == <<"false">>
JStr(s) == <<"str", s>>

ValueTokens(v) ==
    IF v = JTrue THEN <<"true">>
    ELSE IF v = JFalse THEN <<"false">>
    ELSE <<"\"", v[2], "\"">>

RECURSIVE MemberTokens(_, _, _, _)
\* The members of obj from index i on, separated by item_sep, key and value
\* separated by key_sep.
MemberTokens(obj, i, item_sep, key_sep) ==
    IF i > Len(obj) THEN <<>>
    ELSE (IF i > 1 THEN item_sep ELSE <<>>)
         \o <<"\"", obj[i][1], "\"">> \o key_sep \o ValueTokens(obj[i][2])
         \o MemberTokens(obj, i + 1, item_sep, key_sep)

\* json.dumps(obj) with the default separators (', ', ': ').
json_dumps(obj) ==
    <<"{">> \o MemberTokens(obj, 1, <<",", " ">>, <<":", " ">>) \o <<"}">>

\* The same object as a remote server may send it: no blanks.
CompactText(obj) ==
    <<"{">> \o MemberTokens(obj, 1, <<",">>, <<":">>) \o <<"}">>

RECURSIVE SkipBlanks(_, _)
SkipBlanks(text, i) ==
    IF i <= Len(text) /\ text[i] = " " THEN SkipBlanks(text, i + 1) ELSE i

\* The value starting at token i, and the index of the token after it.
ParseValue(text, i) ==
    IF text[i] = "true" THEN [v |-> JTrue, n |-> i + 1]
    ELSE IF text[i] = "false" THEN [v |-> JFalse, n |-> i + 1]
    ELSE [v |-> JStr(text[i + 1]), n |-> i + 3]

RECURSIVE ParseMembers(_, _)
\* The members of the object whose next member (or closing brace) is at i.
ParseMembers(text, i) ==
    LET k == SkipBlanks(text, i) IN
    IF text[k] = "}" THEN <<>>
    ELSE IF text[k] = "," THEN ParseMembers(text, k + 1)
    ELSE LET key   == text[k + 1]
             colon == SkipBlanks(text, k + 3)
             val   == ParseValue(text, SkipBlanks(text, colon + 1))
         IN  <<<<key, val.v>>>> \o ParseMembers(text, val.n)

\* json.loads(text) / response.json() on a text that decodes.
json_loads(text) == ParseMembers(text, 2)

\* Whether response.json() decodes the text (a JSONDecodeError otherwise).
json_decodes(text) ==
    Len(text) >= 2 /\ text[1] = "{" /\ text[Len(text)] = "}"

\* Whether the object has a member named key.
HasField(obj, key) == \E i \in 1..Len(obj) : obj[i][1] = key

\* The error object {"error": msg}.
ErrorObject(msg) == <<<<"error", JStr(msg)>>>>

(***************************************************************************)
(* Exceptions: the outcome of evaluating a Python expression is a value or *)
(* a raised exception with its type and str().                            *)
(***************************************************************************)
Return(v) == [raised |-> FALSE, type |-> "", msg |-> "", val |-> v]
Raise(t, m) == [raised |-> TRUE, type |-> t, msg |-> m, val |-> <<>>]

(***************************************************************************)
(* Module start-up.                                                        *)
(***************************************************************************)
ConfigMissing_And(tok, team) == ~Truthy(tok) /\ ~Truthy(team)

\* if not bot_token or not team_id
ConfigMissing(tok, team) == ~Truthy(tok) \/ ~Truthy(team)

\* str(x) of an Optional[str], as an f-string renders it.
fstr(x) == IF x = None THEN "None" ELSE x[1]

\* SlackClient.__init__: f"Bearer {bot_token}" is the pair of its two parts.
SlackClient_init(tok) ==
    ("Authorization" :> <<"Bearer ", fstr(tok)>>)
    @@ ("Content-Type" :> <<"application/json">>)

(***************************************************************************)
(* SlackClient: the request each method builds.  team_id and bot_headers   *)
(* are read from the module global and from self at the time of the call.  *)
(***************************************************************************)
HttpGet(url, params) ==
    [method |-> "GET", url |-> url, headers |-> bot_headers,
     params |-> params, json |-> EmptyDict]

HttpPost(url, body) ==
    [method |-> "POST", url |-> url, headers |-> bot_headers,
     params |-> EmptyDict, json |-> body]

\* if cursor: params["cursor"] = cursor
CursorParam(cursor) ==
    IF Truthy(cursor) THEN ("cursor" :> cursor[1]) ELSE EmptyDict

SlackClient_get_channels_NoCap(limit, cursor) ==
    HttpGet("https://slack.com/api/conversations.list",
            ("types" :> "public_channel") @@ ("exclude_archived" :> "true")
            @@ ("limit" :> str(limit)) @@ ("team_id" :> fstr(team_id))
            @@ CursorParam(cursor))

SlackClient_get_channels(limit, cursor) ==
    HttpGet("https://slack.com/api/conversations.list",
            ("types" :> "public_channel") @@ ("exclude_archived" :> "true")
            @@ ("limit" :> str(min(limit, LimitCap))) @@ ("team_id" :> fstr(team_id))
            @@ CursorParam(cursor))

SlackClient_post_message(channel_id, text) ==
    HttpPost("https://slack.com/api/chat.postMessage",
             ("channel" :> channel_id) @@ ("text" :> text))

SlackClient_post_reply(channel_id, thread_ts, text) ==
    HttpPost("https://slack.com/api/chat.postMessage",
             ("channel" :> channel_id) @@ ("thread_ts" :> thread_ts) @@ ("text" :> text))

SlackClient_add_reaction(channel_id, timestamp, reaction) ==
    HttpPost("https://slack.com/api/reactions.add",
             ("channel" :> channel_id) @@ ("timestamp" :> timestamp) @@ ("name" :> reaction))

SlackClient_get_channel_history_Capped(channel_id, limit) ==
    HttpGet("https://slack.com/api/conversations.history",
            ("channel" :> channel_id) @@ ("limit" :> str(min(limit, LimitCap))))

SlackClient_get_channel_history(channel_id, limit) ==
    HttpGet("https://slack.com/api/conversations.history",
            ("channel" :> channel_id) @@ ("limit" :> str(limit)))

SlackClient_get_thread_replies(channel_id, thread_ts) ==
    HttpGet("https://slack.com/api/conversations.replies",
            ("channel" :> channel_id) @@ ("ts" :> thread_ts))

SlackClient_get_users_CursorIfGiven(limit, cursor) ==
    HttpGet("https://slack.com/api/users.list",
            ("limit" :> str(min(limit, LimitCap))) @@ ("team_id" :> fstr(team_id))
            @@ (IF cursor # None THEN ("cursor" :> cursor[1]) ELSE EmptyDict))

SlackClient_get_users(limit, cursor) ==
    HttpGet("https://slack.com/api/users.list",
            ("limit" :> str(min(limit, LimitCap))) @@ ("team_id" :> fstr(team_id))
            @@ CursorParam(cursor))

SlackClient_get_user_profile(user_id) ==
    HttpGet("https://slack.com/api/users.profile.get",
            ("user" :> user_id) @@ ("include_labels" :> "true"))

ClientReturn_RaiseOnNotOk(out) ==
    IF out.kind = "exc" THEN Raise(out.type, out.msg)
    ELSE IF ~json_decodes(out.text)
         THEN Raise("JSONDecodeError", "Expecting value: line 1 column 1 (char 0)")
    ELSE IF \E i \in 1..Len(json_loads(out.text)) :
                json_loads(out.text)[i] = <<"ok", JFalse>>
         THEN Raise("SlackApiError", "The request to the Slack API failed.")
    ELSE Return(json_loads(out.text))

ClientReturn_FirstMember(out) ==
    IF out.kind = "exc" THEN Raise(out.type, out.msg)
    ELSE IF ~json_decodes(out.text)
         THEN Raise("JSONDecodeError", "Expecting value: line 1 column 1 (char 0)")
    ELSE Return(SubSeq(json_loads(out.text), 1, 1))

\* The end of every client method, once the awaited request has an outcome:
\* the await raises the transport error, or response.json() decodes the body
\* or raises.
ClientReturn(out) ==
    IF out.kind = "exc" THEN Raise(out.type, out.msg)
    ELSE IF ~json_decodes(out.text)
         THEN Raise("JSONDecodeError", "Expecting value: line 1 column 1 (char 0)")
    ELSE Return(json_loads(out.text))

(***************************************************************************)
(* The tool handlers.                                                      *)
(***************************************************************************)
TryExcept_ValueErrorOnly(r) ==
    IF r.raised /\ r.type # "ValueError"
    THEN [st |-> "fault", text |-> <<>>]
    ELSE [st |-> "done",
          text |-> IF r.raised THEN json_dumps(ErrorObject(r.msg)) ELSE json_dumps(r.val)]

\* try: ... return json.dumps(response)
\* except Exception as e: return json.dumps({"error": str(e)})
TryExcept(r) ==
    [st |-> "done",
     text |-> IF r.raised THEN json_dumps(ErrorObject(r.msg)) ELSE json_dumps(r.val)]

\* A parameter with a default: the default stands in for an argument not passed.
Default(arg, d) == IF arg = None THEN d ELSE arg[1]

\* if not channel_id or not text
post_message_missing(channel_id, text) ==
    ~Truthy(channel_id) \/ ~Truthy(text)

reply_to_thread_missing_IsNone(channel_id, thread_ts, text) ==
    channel_id = None \/ thread_ts = None \/ text = None

\* if not channel_id or not thread_ts or not text
reply_to_thread_missing(channel_id, thread_ts, text) ==
    ~Truthy(channel_id) \/ ~Truthy(thread_ts) \/ ~Truthy(text)

\* if not channel_id or not timestamp or not reaction
add_reaction_missing(channel_id, timestamp, reaction) ==
    ~Truthy(channel_id) \/ ~Truthy(timestamp) \/ ~Truthy(reaction)

\* if not channel_id
get_channel_history_missing(channel_id) == ~Truthy(channel_id)

\* if not channel_id or not thread_ts
get_thread_replies_missing(channel_id, thread_ts) ==
    ~Truthy(channel_id) \/ ~Truthy(thread_ts)

\* if not user_id
get_user_profile_missing(user_id) == ~Truthy(user_id)

\* A tool call can be dispatched to handler instance c.
Dispatchable(c) ==
    /\ pc = "serving"
    /\ call_st[c] = "idle"
    /\ call_count < MaxCalls

\* The handler suspends in the client method, awaiting the request it issued.
Send(c, tool, args, req) ==
    /\ call_st' = [call_st EXCEPT ![c] = "awaiting"]
    /\ call_tool' = [call_tool EXCEPT ![c] = tool]
    /\ call_args' = [call_args EXCEPT ![c] = args]
    /\ call_req' = [call_req EXCEPT ![c] = Some(req)]
    /\ call_nreq' = [call_nreq EXCEPT ![c] = @ + 1]
    /\ request_count' = request_count + 1
    /\ call_count' = call_count + 1
    /\ UNCHANGED <<call_resp, call_result>>
    /\ UNCHANGED config_vars

\* The handler raises ValueError(msg) before calling the client; its own
\* except clause turns it into the returned text.
Reject(c, tool, args, msg) ==
    LET h == TryExcept(Raise("ValueError", msg)) IN
    /\ call_st' = [call_st EXCEPT ![c] = h.st]
    /\ call_tool' = [call_tool EXCEPT ![c] = tool]
    /\ call_args' = [call_args EXCEPT ![c] = args]
    /\ call_result' = [call_result EXCEPT ![c] = h.text]
    /\ call_count' = call_count + 1
    /\ UNCHANGED <<call_req, call_resp, call_nreq, request_count>>
    /\ UNCHANGED config_vars

slack_list_channels(c, limit, cursor) ==
    /\ Dispatchable(c)
    /\ Send(c, "slack_list_channels", [limit |-> limit, cursor |-> cursor],
            SlackClient_get_channels(Default(limit, DefaultListLimit), cursor))

slack_post_message(c, channel_id, text) ==
    /\ Dispatchable(c)
    /\ LET args == [channel_id |-> channel_id, text |-> text] IN
       IF post_message_missing(channel_id, text)
       THEN Reject(c, "slack_post_message", args,
                   "Missing required arguments: channel_id and text")
       ELSE Send(c, "slack_post_message", args,
                 SlackClient_post_message(channel_id[1], text[1]))

slack_reply_to_thread(c, channel_id, thread_ts, text) ==
    /\ Dispatchable(c)
    /\ LET args == [channel_id |-> channel_id, thread_ts |-> thread_ts, text |-> text] IN
       IF reply_to_thread_missing(channel_id, thread_ts, text)
       THEN Reject(c, "slack_reply_to_thread", args,
                   "Missing required arguments: channel_id, thread_ts, and text")
       ELSE Send(c, "slack_reply_to_thread", args,
                 SlackClient_post_reply(channel_id[1], thread_ts[1], text[1]))

slack_add_reaction(c, channel_id, timestamp, reaction) ==
    /\ Dispatchable(c)
    /\ LET args == [channel_id |-> channel_id, timestamp |-> timestamp,
                    reaction |-> reaction] IN
       IF add_reaction_missing(channel_id, timestamp, reaction)
       THEN Reject(c, "slack_add_reaction", args,
                   "Missing required arguments: channel_id, timestamp, and reaction")
       ELSE Send(c, "slack_add_reaction", args,
                 SlackClient_add_reaction(channel_id[1], timestamp[1], reaction[1]))

slack_get_channel_history(c, channel_id, limit) ==
    /\ Dispatchable(c)
    /\ LET args == [channel_id |-> channel_id, limit |-> limit] IN
       IF get_channel_history_missing(channel_id)
       THEN Reject(c, "slack_get_channel_history", args,
                   "Missing required argument: channel_id")
       ELSE Send(c, "slack_get_channel_history", args,
                 SlackClient_get_channel_history(channel_id[1],
                                                 Default(limit, DefaultHistoryLimit)))

slack_get_thread_replies(c, channel_id, thread_ts) ==
    /\ Dispatchable(c)
    /\ LET args == [channel_id |-> channel_id, thread_ts |-> thread_ts] IN
       IF get_thread_replies_missing(channel_id, thread_ts)
       THEN Reject(c, "slack_get_thread_replies", args,
                   "Missing required arguments: channel_id and thread_ts")
       ELSE Send(c, "slack_get_thread_replies", args,
                 SlackClient_get_thread_replies(channel_id[1], thread_ts[1]))

slack_get_users(c, limit, cursor) ==
    /\ Dispatchable(c)
    /\ Send(c, "slack_get_users", [limit |-> limit, cursor |-> cursor],
            SlackClient_get_users(Default(limit, DefaultListLimit), cursor))

slack_get_user_profile(c, user_id) ==
    /\ Dispatchable(c)
    /\ LET args == [user_id |-> user_id] IN
       IF get_user_profile_missing(user_id)
       THEN Reject(c, "slack_get_user_profile", args,
                   "Missing required argument: user_id")
       ELSE Send(c, "slack_get_user_profile", args,
                 SlackClient_get_user_profile(user_id[1]))

(***************************************************************************)
(* The awaited request and the rest of the handler.                        *)
(***************************************************************************)
\* The remote side (or the transport) settles the request of call c with out.
RemoteReply(c, out) ==
    /\ call_st[c] = "awaiting"
    /\ call_resp[c] = None
    /\ call_resp' = [call_resp EXCEPT ![c] = Some(out)]
    /\ UNCHANGED <<call_st, call_tool, call_args, call_req, call_result, call_nreq,
                   call_count, request_count>>
    /\ UNCHANGED config_vars

Awaited_Shared(c) ==
    LET d == CHOOSE e \in DOMAIN call_resp :
                 /\ call_resp[e] # None
                 /\ \A f \in DOMAIN call_resp : (f # c /\ call_resp[f] # None) => e # c
    IN  call_resp[d][1]

\* The value of the handler's own await: the outcome of the request it issued.
Awaited(c) == call_resp[c][1]

Resume_Retry(c) ==
    /\ call_st[c] = "awaiting"
    /\ call_resp[c] # None
    /\ IF Awaited(c).kind = "exc" /\ call_nreq[c] < 2
       THEN /\ call_resp' = [call_resp EXCEPT ![c] = None]
            /\ call_nreq' = [call_nreq EXCEPT ![c] = @ + 1]
            /\ request_count' = request_count + 1
            /\ UNCHANGED <<call_st, call_result>>
       ELSE /\ call_st' = [call_st EXCEPT ![c] = TryExcept(ClientReturn(Awaited(c))).st]
            /\ call_result' =
                   [call_result EXCEPT ![c] = TryExcept(ClientReturn(Awaited(c))).text]
            /\ UNCHANGED <<call_resp, call_nreq, request_count>>
    /\ UNCHANGED <<call_tool, call_args, call_req, call_count>>
    /\ UNCHANGED config_vars

\* The handler resumes: the client method returns or raises, and the handler
\* returns the serialized response or the serialized error.
Resume(c) ==
    /\ call_st[c] = "awaiting"
    /\ call_resp[c] # None
    /\ call_st' = [call_st EXCEPT ![c] = TryExcept(ClientReturn(Awaited(c))).st]
    /\ call_result' = [call_result EXCEPT ![c] = TryExcept(ClientReturn(Awaited(c))).text]
    /\ UNCHANGED <<call_tool, call_args, call_req, call_resp, call_nreq,
                   call_count, request_count>>
    /\ UNCHANGED config_vars

\* The server hands the returned text to the caller; the handler instance is
\* free for the next call.
Deliver(c) ==
    /\ call_st[c] = "done"
    /\ call_st' = [call_st EXCEPT ![c] = "idle"]
    /\ call_tool' = [call_tool EXCEPT ![c] = ""]
    /\ call_args' = [call_args EXCEPT ![c] = EmptyDict]
    /\ call_req' = [call_req EXCEPT ![c] = None]
    /\ call_resp' = [call_resp EXCEPT ![c] = None]
    /\ call_result' = [call_result EXCEPT ![c] = <<>>]
    /\ call_nreq' = [call_nreq EXCEPT ![c] = 0]
    /\ UNCHANGED <<call_count, request_count>>
    /\ UNCHANGED config_vars

(***************************************************************************)
(* Process start-up.                                                       *)
(***************************************************************************)
call_vars == <<call_st, call_tool, call_args, call_req, call_resp, call_result,
               call_nreq, call_count, request_count>>

\* Lines 10-20 and 153-154: read the environment, exit when a value is
\* missing, otherwise construct the server and the client.
StartupCheck ==
    /\ pc = "start"
    /\ bot_token' = env_token
    /\ team_id' = env_team
    /\ IF ConfigMissing(env_token, env_team)
       THEN /\ pc' = "exited"
            /\ exit_status' = Some(ExitFailure)
            /\ UNCHANGED bot_headers
       ELSE /\ pc' = "loaded"
            /\ bot_headers' = SlackClient_init(env_token)
            /\ UNCHANGED exit_status
    /\ UNCHANGED <<env_token, env_team>>
    /\ UNCHANGED call_vars

\* mcp.run(transport='stdio'): the server starts serving tool calls.
Main ==
    /\ pc = "loaded"
    /\ pc' = "serving"
    /\ UNCHANGED <<env_token, env_team, exit_status, bot_token, team_id, bot_headers>>
    /\ UNCHANGED call_vars

(***************************************************************************)
(* Inputs.                                                                 *)
(***************************************************************************)
Calls == {"c1", "c2"}

\* An Optional[str] argument: not given, empty, or the value s.
Opt(s) == {None, Some(""), Some(s)}

\* A str argument that is given: empty, or the value s.
Given(s) == {Some(""), Some(s)}

LimitValues ==
    ((0 - MaxNegLimit)..1)
    \cup {DefaultHistoryLimit, DefaultListLimit}
    \cup ((LimitCap - 1)..(LimitCap + MaxOverCap))

OptLimits == {None} \cup {Some(n) : n \in LimitValues}

FewLimits == {None, Some(LimitCap + MaxOverCap)}

OkBody == <<<<"ok", JTrue>>, <<"ts", JStr("100.1")>>>>
NotOkBody == <<<<"ok", JFalse>>, <<"error", JStr("channel_not_found")>>>>

Response(text) == [kind |-> "response", type |-> "", msg |-> "", text |-> text]

TransportError ==
    [kind |-> "exc", type |-> "ConnectError",
     msg |-> "All connection attempts failed", text |-> <<>>]

Outcomes ==
    {Response(CompactText(OkBody)), Response(json_dumps(OkBody)),
     Response(CompactText(NotOkBody)), Response(<<"<html>">>), TransportError}

FewOutcomes ==
    {Response(CompactText(OkBody)), Response(CompactText(NotOkBody)), TransportError}

Init ==
    /\ env_token \in Opt("xoxb-1")
    /\ env_team \in Opt("T0001")
    /\ pc = "start"
    /\ exit_status = None
    /\ bot_token = None
    /\ team_id = None
    /\ bot_headers = EmptyDict
    /\ call_st = [c \in Calls |-> "idle"]
    /\ call_tool = [c \in Calls |-> ""]
    /\ call_args = [c \in Calls |-> EmptyDict]
    /\ call_req = [c \in Calls |-> None]
    /\ call_resp = [c \in Calls |-> None]
    /\ call_result = [c \in Calls |-> <<>>]
    /\ call_nreq = [c \in Calls |-> 0]
    /\ call_count = 0
    /\ request_count = 0

\* A tool call arrives for handler instance c: each str argument is empty or
\* a value, or one of Unset; limit and cursor are drawn from the given sets.
Dispatch(c, Unset, Limits, Cursors) ==
    \/ \E limit \in Limits, cursor \in Cursors : slack_list_channels(c, limit, cursor)
    \/ \E channel_id \in Unset \cup Given("C123"), text \in Unset \cup Given("hello") :
           slack_post_message(c, channel_id, text)
    \/ \E channel_id \in Unset \cup Given("C123"), thread_ts \in Unset \cup Given("1234567890.123456"),
          text \in Unset \cup Given("hi") :
           slack_reply_to_thread(c, channel_id, thread_ts, text)
    \/ \E channel_id \in Unset \cup Given("C123"), timestamp \in Unset \cup Given("1234567890.123456"),
          reaction \in Unset \cup Given("thumbsup") :
           slack_add_reaction(c, channel_id, timestamp, reaction)
    \/ \E channel_id \in Unset \cup Given("C123"), limit \in Limits :
           slack_get_channel_history(c, channel_id, limit)
    \/ \E channel_id \in Unset \cup Given("C123"), thread_ts \in Unset \cup Given("1234567890.123456") :
           slack_get_thread_replies(c, channel_id, thread_ts)
    \/ \E limit \in Limits, cursor \in Cursors : slack_get_users(c, limit, cursor)
    \/ \E user_id \in Unset \cup Given("U123") : slack_get_user_profile(c, user_id)

\* One call at a time, every argument value.
Next ==
    \/ StartupCheck
    \/ Main
    \/ \E c \in {"c1"} :
           \/ Dispatch(c, {None}, OptLimits, Opt("dXNlcjpVMDYx"))
           \/ \E out \in Outcomes : RemoteReply(c, out)
           \/ Resume(c)
           \/ Deliver(c)

Spec == Init /\ [][Next]_vars

\* Calls dispatched concurrently, fewer argument values.
NextConcurrent ==
    \/ StartupCheck
    \/ Main
    \/ \E c \in Calls :
           \/ Dispatch(c, {}, FewLimits, {None, Some("dXNlcjpVMDYx")})
           \/ \E out \in FewOutcomes : RemoteReply(c, out)
           \/ Resume(c)
           \/ Deliver(c)

SpecConcurrent == Init /\ [][NextConcurrent]_vars

(***************************************************************************)
(* Properties.                                                             *)
(***************************************************************************)
\* The required arguments of each tool, as the tool surface documents them.
RequiredArgs(tool) ==
    CASE tool = "slack_post_message" -> {"channel_id", "text"}
      [] tool = "slack_reply_to_thread" -> {"channel_id", "thread_ts", "text"}
      [] tool = "slack_add_reaction" -> {"channel_id", "timestamp", "reaction"}
      [] tool = "slack_get_channel_history" -> {"channel_id"}
      [] tool = "slack_get_thread_replies" -> {"channel_id", "thread_ts"}
      [] tool = "slack_get_user_profile" -> {"user_id"}
      [] OTHER -> {}

Active(c) == call_st[c] # "idle"

\* Some required argument of the call is absent (None) or empty.
MissingRequired(c) ==
    \E a \in RequiredArgs(call_tool[c]) :
        call_args[c][a] = None \/ call_args[c][a] = Some("")

\* The returned text is a JSON object of exactly the shape {"error": <string>}.
IsErrorResult(text) ==
    /\ json_decodes(text)
    /\ Len(json_loads(text)) = 1
    /\ json_loads(text)[1][1] = "error"
    /\ json_loads(text)[1][2][1] = "str"

Listing(c) == call_tool[c] \in {"slack_list_channels", "slack_get_users"}

C2_NoFaultEscapes ==
    \A c \in Calls :
        /\ call_st[c] \in {"idle", "awaiting", "done"}
        /\ call_st[c] = "done" =>
            /\ json_decodes(call_result[c])
            /\ call_resp[c] = None => IsErrorResult(call_result[c])
            /\ (call_resp[c] # None /\ call_resp[c][1].kind = "exc") =>
                   json_loads(call_result[c]) = ErrorObject(call_resp[c][1].msg)
            /\ (call_resp[c] # None /\ call_resp[c][1].kind = "response"
                    /\ call_resp[c][1].text = <<"<html>">>) =>
                   IsErrorResult(call_result[c])

\* A call whose request failed in transport has returned the error text.
C2_Witness ==
    \E c \in Calls :
        /\ call_st[c] = "done"
        /\ call_tool[c] = "slack_get_user_profile"
        /\ call_resp[c] = Some(TransportError)
        /\ call_result[c] = <<"{", "\"", "error", "\"", ":", " ",
                               "\"", "All connection attempts failed", "\"", "}">>

\* C3: when the remote call answers with the encoding of a body R, the text
\* the tool returns parses back to exactly R.
C3_ResponseVerbatim ==
    \A c \in Calls : \A R \in {OkBody, NotOkBody} :
        (/\ call_st[c] = "done"
         /\ call_resp[c] # None
         /\ call_resp[c][1].kind = "response"
         /\ call_resp[c][1].text \in {CompactText(R), json_dumps(R)})
        => json_loads(call_result[c]) = R

\* post_message("C123", "hello") answered {"ok":true,"ts":"100.1"} has
\* returned the text {"ok": true, "ts": "100.1"}.
C3_Witness ==
    \E c \in Calls :
        /\ call_st[c] = "done"
        /\ call_tool[c] = "slack_post_message"
        /\ call_args[c] = [channel_id |-> Some("C123"), text |-> Some("hello")]
        /\ call_resp[c] = Some(Response(CompactText(OkBody)))
        /\ call_result[c] = <<"{", "\"", "ok", "\"", ":", " ", "true", ",", " ",
                               "\"", "ts", "\"", ":", " ", "\"", "100.1", "\"", "}">>

\* The body of the call's response reports a failure of the remote service.
RemoteReportedFailure(c) ==
    /\ call_resp[c] # None
    /\ call_resp[c][1].kind = "response"
    /\ call_resp[c][1].text = CompactText(NotOkBody)

\* C4 as stated: a remote-reported failure embedded in the body ("ok": false)
\* is reported as a text of shape {"error": <message>}, like a validation
\* error.
C4_RemoteFailureWrapped ==
    \A c \in Calls :
        (call_st[c] = "done" /\ RemoteReportedFailure(c)) =>
            IsErrorResult(call_result[c])

\* C4 amended: a failure that raises during the network call (transport,
\* decoding) is reported as {"error": <message>}; a remote-reported failure
\* embedded in the body is not: that body is returned verbatim.
C4_RaisedFailuresWrappedOnly ==
    \A c \in Calls :
        call_st[c] = "done" =>
            /\ (call_resp[c] # None /\ call_resp[c][1].kind = "exc") =>
                   IsErrorResult(call_result[c])
            /\ (call_resp[c] # None /\ call_resp[c][1].kind = "response"
                    /\ call_resp[c][1].text = <<"<html>">>) =>
                   IsErrorResult(call_result[c])
            /\ RemoteReportedFailure(c) =>
                   /\ json_loads(call_result[c]) = NotOkBody
                   /\ ~IsErrorResult(call_result[c])

\* A call answered {"ok":false,"error":"channel_not_found"} has returned
\* that body.
C4_Witness ==
    \E c \in Calls :
        /\ call_st[c] = "done"
        /\ RemoteReportedFailure(c)
        /\ call_result[c] = json_dumps(NotOkBody)

\* C5: list_channels and get_users send limit 200 for a given limit above
\* 200 and the given limit when it is in 1..200; with no limit given they
\* send 100, and get_channel_history sends 10.
C5_LimitCapAndDefaults ==
    \A c \in Calls :
        (Active(c) /\ call_req[c] # None) =>
            LET given == call_args[c].limit
                sent  == call_req[c][1].params["limit"]
            IN  /\ (Listing(c) /\ given # None /\ given[1] > 200) => sent = "200"
                /\ (Listing(c) /\ given # None /\ given[1] >= 1 /\ given[1] <= 200) =>
                       sent = str(given[1])
                /\ (Listing(c) /\ given = None) => sent = "100"
                /\ (call_tool[c] = "slack_get_channel_history" /\ given = None) =>
                       sent = "10"

\* list_channels(limit = 201) has sent limit=200.
C5_Witness ==
    \E c \in Calls :
        /\ Active(c)
        /\ call_tool[c] = "slack_list_channels"
        /\ call_args[c].limit = Some(201)
        /\ call_req[c] # None
        /\ call_req[c][1].params["limit"] = "200"

\* C6: the request of list_channels and get_users has a cursor parameter
\* exactly when a non-empty cursor was passed, with the passed value; an
\* empty cursor value is never sent.
C6_CursorIffGiven ==
    \A c \in Calls :
        (Active(c) /\ Listing(c) /\ call_req[c] # None) =>
            LET given  == call_args[c].cursor
                params == call_req[c][1].params
            IN  /\ ("cursor" \in DOMAIN params) <=> (given # None /\ given # Some(""))
                /\ ("cursor" \in DOMAIN params) =>
                       (params["cursor"] = given[1] /\ params["cursor"] # "")

\* get_users(cursor = "") has sent a request without a cursor parameter.
C6_Witness ==
    \E c \in Calls :
        /\ Active(c)
        /\ call_tool[c] = "slack_get_users"
        /\ call_args[c].cursor = Some("")
        /\ call_req[c] # None
        /\ "cursor" \notin DOMAIN call_req[c][1].params

\* C7: a call that passes validation has issued exactly one request, no
\* call issues a second one (also after a failure), and the requests issued
\* never outnumber the calls made.
C7_OneRequestPerCall ==
    /\ request_count <= call_count
    /\ \A c \in Calls :
        /\ call_nreq[c] <= 1
        /\ (Active(c) /\ ~MissingRequired(c)) =>
               (call_nreq[c] = 1 /\ call_req[c] # None)

\* A call whose only request failed has returned, and every call so far
\* issued one request.
C7_Witness ==
    \E c \in Calls :
        /\ call_st[c] = "done"
        /\ call_resp[c] = Some(TransportError)
        /\ call_nreq[c] = 1
        /\ call_count = MaxCalls
        /\ request_count = MaxCalls

\* C8: with the bot credential or the workspace identifier absent or empty,
\* the process has exited with a non-zero status once the start-up check
\* ran, and it never serves, handles a call or issues a request.
C8_NoServingWithoutConfig ==
    (env_token \in {None, Some("")} \/ env_team \in {None, Some("")}) =>
        /\ pc \in {"start", "exited"}
        /\ pc = "exited" => (exit_status # None /\ exit_status[1] # 0)
        /\ call_count = 0
        /\ request_count = 0
        /\ \A c \in Calls : ~Active(c)

\* The token is set and the workspace identifier is empty: exited with 1.
C8_Witness ==
    /\ env_token = Some("xoxb-1")
    /\ env_team = Some("")
    /\ pc = "exited"
    /\ exit_status = Some(1)

\* What a call's own arguments and own response determine its result to be.
OwnResult(c) ==
    IF MissingRequired(c) THEN call_resp[c] = None /\ IsErrorResult(call_result[c])
    ELSE /\ call_resp[c] # None
         /\ IF call_resp[c][1].kind = "exc"
            THEN json_loads(call_result[c]) = ErrorObject(call_resp[c][1].msg)
            ELSE \E R \in {OkBody, NotOkBody} :
                     /\ call_resp[c][1].text = CompactText(R)
                     /\ json_loads(call_result[c]) = R

\* A step leaves the credential headers and the workspace identifier alone.
CredentialUnchanged ==
    bot_headers' = bot_headers /\ team_id' = team_id /\ bot_token' = bot_token

\* C9: with calls interleaved, the credential headers and the workspace
\* identifier do not change once initialized, every outbound request carries
\* the one bearer credential, and the result of each call is the one its own
\* arguments and the response to its own request determine.
C9_ConcurrentCallsIndependent ==
    /\ [](\A c \in Calls :
            /\ call_req[c] # None =>
                   call_req[c][1].headers["Authorization"] = <<"Bearer ", env_token[1]>>
            /\ call_st[c] = "done" => OwnResult(c))
    /\ [][(pc \in {"loaded", "serving"}) => CredentialUnchanged]_vars

\* Two calls are finished at once, with different tools, different
\* responses and different results.
C9_Witness ==
    /\ call_st["c1"] = "done" /\ call_st["c2"] = "done"
    /\ call_tool["c1"] = "slack_post_message"
    /\ call_tool["c2"] = "slack_add_reaction"
    /\ call_resp["c1"] = Some(Response(CompactText(OkBody)))
    /\ call_resp["c2"] = Some(Response(CompactText(NotOkBody)))
    /\ json_loads(call_result["c1"]) = OkBody
    /\ json_loads(call_result["c2"]) = NotOkBody

\* C10: get_channel_history sends any given limit unchanged, and
\* list_channels and get_users send any given limit of at most 200
\* unchanged, zero and negative limits included; no limit value makes a call
\* fail validation.
C10_LimitForwarded ==
    \A c \in Calls :
        (Active(c) /\ "limit" \in DOMAIN call_args[c]) =>
            LET given == call_args[c].limit IN
            /\ ~MissingRequired(c) => call_req[c] # None
            /\ (call_req[c] # None /\ given # None) =>
                   /\ call_tool[c] = "slack_get_channel_history" =>
                          call_req[c][1].params["limit"] = str(given[1])
                   /\ (Listing(c) /\ given[1] <= 200) =>
                          call_req[c][1].params["limit"] = str(given[1])

\* get_channel_history(limit = 201) has sent limit=201.
C10_Witness ==
    \E c \in Calls :
        /\ Active(c)
        /\ call_tool[c] = "slack_get_channel_history"
        /\ call_args[c].limit = Some(201)
        /\ call_req[c] # None
        /\ call_req[c][1].params["limit"] = "201"

====
